---- MODULE Spec2Model ----
(***************************************************************************)
(* State-machine model of labwc's menu subsystem (src/menu/menu.c): the    *)
(* selection/navigation state machine, the pipe-menu controller and the    *)
(* teardown of menus.                                                      *)
(*                                                                         *)
(* Heap objects are named: a menu by a handle, an item by a name.  A       *)
(* pointer is a handle/name, NULL, or DANGLING (its target was freed).     *)
(* Dereferencing a dangling pointer is undefined behaviour; it is          *)
(* modelled as a choice between the process crashing and the handler       *)
(* carrying on with what the freed memory happens to hold.                 *)
(***************************************************************************)
EXTENDS Integers, Sequences, FiniteSets, TLC

VARIABLES
    menus,                  \* server->menus, in creation order
    men,                    \* struct menu, per handle
    submenu,                \* menuitem->submenu, per item
    menu_current,           \* server->menu_current
    input_mode,             \* server->input_mode
    selected_item,          \* static struct menuitem *selected_item
    waiting_for_pipe_menu,  \* static bool waiting_for_pipe_menu
    current_menu,           \* static struct menu *current_menu (builder cursor)
    ctx,                    \* the live struct pipe_context objects (a set)
    killed,                 \* SIGTERM was sent to the last spawned subprocess
    crashed,                \* the process died on a dangling dereference
    last,                   \* history: the operation that produced this state
    config,                 \* the menu.xml sources and rc.workspace_config
    built,                  \* server->menus as the parser builds it
    handed,                 \* the action list last handed to actions_run
    bcursor,                \* current_menu as a position in built
    placed                  \* what menu_configure last set, per menu of built

progVars == <<menus, men, submenu, menu_current, input_mode, selected_item,
              waiting_for_pipe_menu, current_menu, ctx, killed, crashed>>
(* the builder's view of the menus: items with heights, offsets and action *)
(* lists.  The interaction model keeps it fixed.                           *)
bvars == <<config, built, handed, bcursor, placed>>
vars == <<menus, men, submenu, menu_current, input_mode, selected_item,
          waiting_for_pipe_menu, current_menu, ctx, killed, crashed, last,
          config, built, handed, bcursor, placed>>

NULL == "NULL"
DANGLING == "DANGLING"

PIPEMENU_MAX_BUF_SIZE == 1048576
ReadMax == 8192
MaxSmallLen == 1
MaxBulk == 0

(***************************************************************************)
(* The configuration that menu_init builds, and the documents a pipe-menu  *)
(* command may print.                                                      *)
(***************************************************************************)
StaticMenus == <<"R", "S", "C">>
PipeHandles == {"P", "Q"}
Handles == {"R", "S", "C"} \cup PipeHandles
TopLevel == {"R", "C"}

StaticItems(h) ==
    CASE h = "R" -> <<"r_term", "r_sep", "r_sub", "r_pipe">>
      [] h = "S" -> <<"s_term", "s_pipe">>
      [] h = "C" -> <<"c_term">>
      [] OTHER -> <<>>

PipeDocs == { <<"t">>, <<"t", "q">> }

PipeItem(h, k) == IF k = "t" THEN h \o "_t" ELSE h \o "_q"

DocItems(h, doc) == [n \in 1..Len(doc) |-> PipeItem(h, doc[n])]

Items == {"r_term", "r_sep", "r_sub", "r_pipe", "s_term", "s_pipe", "c_term",
          "P_t", "P_q", "Q_t", "Q_q"}

Owner(i) ==
    CASE i \in {"r_term", "r_sep", "r_sub", "r_pipe"} -> "R"
      [] i \in {"s_term", "s_pipe"} -> "S"
      [] i = "c_term" -> "C"
      [] i \in {"P_t", "P_q"} -> "P"
      [] OTHER -> "Q"

Selectable(i) == i # "r_sep"

Execute(i) == i \in {"r_pipe", "s_pipe", "P_q", "Q_q"}

ItemId(i) ==
    CASE i \in {"r_pipe", "s_pipe"} -> "P"
      [] i \in {"P_q", "Q_q"} -> "Q"
      [] OTHER -> NULL

DeadMenu == [live |-> FALSE, id |-> NULL, enabled |-> FALSE, selItem |-> NULL,
             selMenu |-> NULL, parent |-> NULL, is_pipemenu |-> FALSE,
             items |-> <<>>]


(***************************************************************************)
(* menu_init: the tree built from the configuration.  menu_create gives a  *)
(* menu the builder cursor as parent and the pending flag as is_pipemenu.  *)
(***************************************************************************)
menu_create(id, cur, waiting, its) ==
    [live |-> TRUE, id |-> id, enabled |-> FALSE, selItem |-> NULL,
     selMenu |-> NULL, parent |-> cur, is_pipemenu |-> waiting, items |-> its]

menu_init(cur, waiting) ==
    [h \in Handles |->
        CASE h = "R" -> menu_create("R", cur, waiting, StaticItems("R"))
          [] h = "S" -> menu_create("S", "R", waiting, StaticItems("S"))
          [] h = "C" -> menu_create("C", cur, waiting, StaticItems("C"))
          [] OTHER -> DeadMenu]

InitSubmenu == [i \in Items |-> IF i = "r_sub" THEN "S" ELSE NULL]

is_unique_id(id) == \A n \in 1..Len(menus) : men[menus[n]].id # id

menu_get_by_id(id) ==
    IF id = NULL \/ is_unique_id(id) THEN NULL
    ELSE menus[CHOOSE n \in 1..Len(menus) :
                 /\ men[menus[n]].id = id
                 /\ \A k \in 1..(n - 1) : men[menus[k]].id # id]

(***************************************************************************)
(* menu_free of every menu of F, with nullify_item_pointing_to_this_menu.  *)
(* Pointers the code does not reset are left dangling.                     *)
(***************************************************************************)
MenAfterFree(m, F) ==
    [h \in Handles |->
        IF h \in F THEN DeadMenu
        ELSE [m[h] EXCEPT !.parent = IF @ \in F THEN NULL ELSE @,
                          !.selMenu = IF @ \in F THEN DANGLING ELSE @]]

SubAfterFree(sub, F) ==
    [i \in Items |-> IF Owner(i) \in F \/ sub[i] \in F THEN NULL ELSE sub[i]]

ListAfterFree(l, F) == SelectSeq(l, LAMBDA h : h \notin F)

MenuPtrAfterFree(p, F) == IF p \in F THEN DANGLING ELSE p

ItemPtrAfterFree(p, F) ==
    IF p \notin {NULL, DANGLING} /\ Owner(p) \in F THEN DANGLING ELSE p

CtxAfterFree(cs, F) ==
    {[c EXCEPT !.dangling = @ \/ Owner(c.item) \in F] : c \in cs}

(* fault: no menu counts as generated, so teardown frees nothing *)
NoPipeMenus(m) == {}

PipeMenus(m) == {h \in Handles : m[h].live /\ m[h].is_pipemenu}

(* history: the menu holding a request's item was closed or freed *)
Track(cs, m) ==
    {[c EXCEPT !.closed = @ \/ c.dangling \/ ~m[Owner(c.item)].enabled] : c \in cs}

(***************************************************************************)
(* _close, close_all_submenus                                              *)
(***************************************************************************)
(* fault: _close without the descent into the open child *)
CloseShallow(m, h) == [m EXCEPT ![h].enabled = FALSE, ![h].selItem = NULL]

RECURSIVE Close(_, _)
Close(m, h) ==
    LET m1 == [m EXCEPT ![h].enabled = FALSE, ![h].selItem = NULL]
    IN  IF m1[h].selMenu \notin {NULL, DANGLING}
        THEN [Close(m1, m1[h].selMenu) EXCEPT ![h].selMenu = NULL]
        ELSE m1

RECURSIVE close_all_from(_, _, _, _)
close_all_from(m, sub, h, k) ==
    IF k > Len(m[h].items) THEN [m EXCEPT ![h].selMenu = NULL]
    ELSE LET s == sub[m[h].items[k]]
         IN  IF s # NULL
             THEN close_all_from(
                      close_all_from([m EXCEPT ![s].enabled = FALSE], sub, s, 1),
                      sub, h, k + 1)
             ELSE close_all_from(m, sub, h, k + 1)

close_all_submenus(m, sub, h) == close_all_from(m, sub, h, 1)

Init ==
    /\ menus = StaticMenus
    /\ men = menu_init(NULL, FALSE)
    /\ submenu = InitSubmenu
    /\ menu_current = NULL
    /\ input_mode = "passthrough"
    /\ selected_item = NULL
    /\ waiting_for_pipe_menu = FALSE
    /\ current_menu = NULL
    /\ ctx = {}
    /\ killed = FALSE
    /\ crashed = FALSE
    /\ last = "init"
    /\ config = [sources |-> <<>>, merge |-> FALSE, workspaces |-> 2]
    /\ built = <<>>
    /\ handed = <<>>
    /\ bcursor = 0
    /\ placed = <<>>

(* the process dies: nothing else changes, and nothing runs afterwards *)
Crash(op) ==
    /\ crashed' = TRUE
    /\ last' = op
    /\ UNCHANGED <<menus, men, submenu, menu_current, input_mode,
                   selected_item, waiting_for_pipe_menu, current_menu, ctx,
                   killed>>

(***************************************************************************)
(* parse_pipemenu: the duplicate-id check, the spawn (which may fail), and *)
(* the new request.  m is the menu state the caller has reached.           *)
(***************************************************************************)
NewCtx(item, m) ==
    [item |-> item, dangling |-> FALSE, len |-> 0, head |-> <<>>,
     closed |-> ~m[Owner(item)].enabled]

(* fault: a selection that never starts a subprocess *)
never_spawn(item, m) ==
    /\ men' = m
    /\ UNCHANGED <<menus, submenu, menu_current, input_mode, current_menu,
                   crashed, waiting_for_pipe_menu, ctx, killed>>

parse_pipemenu(item, m) ==
    /\ men' = m
    /\ UNCHANGED <<menus, submenu, menu_current, input_mode, current_menu,
                   crashed>>
    /\ IF ~is_unique_id(ItemId(item))
       THEN UNCHANGED <<waiting_for_pipe_menu, ctx, killed>>
       ELSE \E spawned \in BOOLEAN :
              IF ~spawned
              THEN UNCHANGED <<waiting_for_pipe_menu, ctx, killed>>
              ELSE /\ waiting_for_pipe_menu' = TRUE
                   /\ ctx' = ctx \cup {NewCtx(item, m)}
                   /\ killed' = FALSE

(* fault: selection without the same-item guard *)
NeverSame(item) == {FALSE}

(* fault: selection without the pending guard *)
NoPendingGuard == FALSE

(* item == selected_item; a dangling selected_item may alias a new item *)
SameAsSelected(item) ==
    IF selected_item = DANGLING THEN BOOLEAN ELSE {item = selected_item}

PipePending == waiting_for_pipe_menu

(***************************************************************************)
(* menu_process_item_selection                                             *)
(***************************************************************************)
menu_process_item_selection(item) ==
    \E same \in SameAsSelected(item) :
      IF same \/ PipePending
      THEN /\ last' = "select_ignored"
           /\ UNCHANGED progVars
      ELSE
        /\ last' = "select"
        /\ selected_item' = item
        /\ IF ~Selectable(item)
           THEN UNCHANGED <<menus, men, submenu, menu_current, input_mode,
                            waiting_for_pipe_menu, current_menu, ctx, killed,
                            crashed>>
           ELSE
             LET p  == Owner(item)
                 m1 == [men EXCEPT ![p].selItem = item]
                 m2 == IF m1[p].selMenu # NULL THEN Close(m1, m1[p].selMenu)
                       ELSE m1
                 s  == submenu[item]
                 m3 == IF s # NULL
                       THEN [m2 EXCEPT ![s].parent = p, ![s].enabled = TRUE]
                       ELSE m2
             IN  IF Execute(item) /\ s = NULL
                 THEN parse_pipemenu(item, m2)
                 ELSE /\ men' = [m3 EXCEPT ![p].selMenu = s]
                      /\ UNCHANGED <<menus, submenu, menu_current, input_mode,
                                     waiting_for_pipe_menu, current_menu, ctx,
                                     killed, crashed>>

(* the items the pointer can be over: those of the menus that are shown *)
Visible(i) == men[Owner(i)].live /\ men[Owner(i)].enabled
              /\ \E n \in 1..Len(men[Owner(i)].items) : men[Owner(i)].items[n] = i

(* menu_process_cursor_motion *)
Hover(item) ==
    /\ ~crashed
    /\ UNCHANGED bvars
    /\ input_mode = "menu"
    /\ Visible(item)
    /\ menu_process_item_selection(item)

(***************************************************************************)
(* Keyboard navigation                                                     *)
(***************************************************************************)
RECURSIVE leaf_from(_)
leaf_from(h) ==
    IF men[h].selMenu = NULL THEN h
    ELSE IF men[men[h].selMenu].selItem = NULL THEN h
    ELSE leaf_from(men[h].selMenu)

get_selection_leaf == IF menu_current = NULL THEN NULL ELSE leaf_from(menu_current)

IndexOf(its, i) == CHOOSE n \in 1..Len(its) : its[n] = i

(* one step along the circular item list; position 0 is the list head *)
ListStep(n, pos, forward) ==
    IF forward THEN (pos + 1) % (n + 1) ELSE (pos + n) % (n + 1)

(* fault: the scan stops at the first item, selectable or not *)
RECURSIVE scan_no_skip(_, _, _, _)
scan_no_skip(its, start, cur, forward) ==
    LET nx == ListStep(Len(its), cur, forward)
    IN  IF nx = start THEN NULL
        ELSE IF nx = 0 THEN scan_no_skip(its, start, nx, forward)
        ELSE its[nx]

RECURSIVE scan_items(_, _, _, _)
scan_items(its, start, cur, forward) ==
    LET nx == ListStep(Len(its), cur, forward)
    IN  IF nx = start THEN NULL
        ELSE IF nx = 0 THEN scan_items(its, start, nx, forward)
        ELSE IF Selectable(its[nx]) THEN its[nx]
        ELSE scan_items(its, start, nx, forward)

sibling_of_selection(menu, forward) ==
    LET its   == men[menu].items
        start == IF men[menu].selItem # NULL THEN IndexOf(its, men[menu].selItem)
                 ELSE 0
    IN  scan_items(its, start, start, forward)

(* what a traversal of a freed menu does: the process dies, or the stale   *)
(* memory (an emptied item list, cleared selection) makes the call return  *)
StaleOrCrash(op) ==
    \/ Crash(op)
    \/ UNCHANGED vars

menu_item_select(forward) ==
    /\ ~crashed
    /\ UNCHANGED bvars
    /\ input_mode = "menu"
    /\ IF menu_current = DANGLING THEN StaleOrCrash("select")
       ELSE LET menu == get_selection_leaf
            IN  IF menu = NULL THEN UNCHANGED vars
                ELSE LET item == sibling_of_selection(menu, forward)
                     IN  IF item = NULL THEN UNCHANGED vars
                         ELSE menu_process_item_selection(item)

menu_item_select_next == menu_item_select(TRUE)

menu_item_select_previous == menu_item_select(FALSE)

RECURSIVE first_selectable(_, _)
first_selectable(its, k) ==
    IF k > Len(its) THEN NULL
    ELSE IF Selectable(its[k]) THEN its[k]
    ELSE first_selectable(its, k + 1)

menu_submenu_enter ==
    /\ ~crashed
    /\ UNCHANGED bvars
    /\ input_mode = "menu"
    /\ IF menu_current = DANGLING THEN StaleOrCrash("select")
       ELSE LET menu == get_selection_leaf
            IN  IF menu = NULL \/ men[menu].selMenu = NULL
                THEN UNCHANGED vars
                ELSE LET item == first_selectable(
                                     men[men[menu].selMenu].items, 1)
                     IN  IF item = NULL THEN UNCHANGED vars
                         ELSE menu_process_item_selection(item)

menu_submenu_leave ==
    /\ ~crashed
    /\ UNCHANGED bvars
    /\ input_mode = "menu"
    /\ IF menu_current = DANGLING THEN StaleOrCrash("select")
       ELSE LET menu == get_selection_leaf
            IN  IF menu = NULL \/ men[menu].parent = NULL
                THEN UNCHANGED vars
                ELSE IF men[menu].parent = DANGLING
                THEN StaleOrCrash("select")
                ELSE IF men[men[menu].parent].selItem = NULL
                THEN UNCHANGED vars
                ELSE menu_process_item_selection(
                         men[men[menu].parent].selItem)

(***************************************************************************)
(* menu_close followed by destroy_pipemenus, as menu_open_root,            *)
(* menu_close_root and menu_execute_item run them.  m is the menu state    *)
(* after menu_close.                                                       *)
(***************************************************************************)
destroy_pipemenus(m) ==
    LET F == PipeMenus(m)
    IN  /\ men' = MenAfterFree(m, F)
        /\ submenu' = SubAfterFree(submenu, F)
        /\ menus' = ListAfterFree(menus, F)
        /\ current_menu' = MenuPtrAfterFree(current_menu, F)
        /\ ctx' = Track(CtxAfterFree(ctx, F), MenAfterFree(m, F))

menu_close(m, h) == IF h \in {NULL, DANGLING} THEN m ELSE Close(m, h)

(* fault: only separators are refused *)
RefusedSeparatorOnly(item) == ~Selectable(item)

(* item->submenu || !item->selectable *)
Refused(item) == submenu[item] # NULL \/ ~Selectable(item)

(* fault: the generated menus are torn down and the active-menu pointer is *)
(* cleared before the actions run                                          *)
destroyed_before_run(item) ==
    LET m == menu_close(men, menu_current)
    IN  [men          |-> MenAfterFree(m, PipeMenus(m)),
         input_mode   |-> "passthrough",
         menu_current |-> NULL]

(* the menu state menu_execute_item has built when it calls actions_run:   *)
(* menu_close and the input mode are done, server->menu_current and the    *)
(* generated menus are untouched                                           *)
at_actions_run(item) ==
    [men          |-> menu_close(men, menu_current),
     input_mode   |-> "passthrough",
     menu_current |-> menu_current]

(* menu_execute_item *)
menu_execute_item(item, op) ==
    IF Refused(item)
    THEN /\ last' = "activate_refused"
         /\ UNCHANGED progVars
    ELSE \/ /\ menu_current = DANGLING
            /\ Crash(op)
         \/ /\ destroy_pipemenus(at_actions_run(item).men)
            /\ selected_item' = ItemPtrAfterFree(selected_item, PipeMenus(men))
            /\ input_mode' = at_actions_run(item).input_mode
            /\ menu_current' = NULL
            /\ last' = op
            /\ UNCHANGED <<waiting_for_pipe_menu, killed, crashed>>

(* menu_call_actions: a click on the item under the pointer *)
menu_call_actions(item) ==
    /\ ~crashed
    /\ UNCHANGED bvars
    /\ input_mode = "menu"
    /\ Visible(item)
    /\ menu_execute_item(item, "activate")

menu_call_selected_actions ==
    /\ ~crashed
    /\ UNCHANGED bvars
    /\ input_mode = "menu"
    /\ IF menu_current = DANGLING THEN StaleOrCrash("activate")
       ELSE LET menu == get_selection_leaf
            IN  IF menu = NULL \/ men[menu].selItem = NULL
                THEN UNCHANGED vars
                ELSE menu_execute_item(men[menu].selItem, "activate")

menu_close_root ==
    /\ ~crashed
    /\ UNCHANGED bvars
    /\ input_mode = "menu"
    /\ \/ /\ menu_current = DANGLING
          /\ Crash("close_root")
       \/ /\ IF menu_current # NULL
             THEN /\ destroy_pipemenus(menu_close(men, menu_current))
                  /\ selected_item' = ItemPtrAfterFree(selected_item, PipeMenus(men))
                  /\ menu_current' = NULL
             ELSE UNCHANGED <<men, submenu, menus, current_menu, ctx,
                              selected_item, menu_current>>
          /\ input_mode' = "passthrough"
          /\ last' = "close_root"
          /\ UNCHANGED <<waiting_for_pipe_menu, killed, crashed>>

(* menu_open_root.  When the teardown frees the very menu being opened     *)
(* (a static menu flagged as generated), what follows runs on freed        *)
(* memory: the process dies there, or carries on with a stale active menu  *)
menu_open_root(menu) ==
    /\ ~crashed
    /\ UNCHANGED bvars
    /\ menu \in TopLevel
    /\ menu_get_by_id(menu) = menu
    /\ LET m1   == menu_close(men, menu_current)
           F    == IF menu_current = NULL THEN {} ELSE PipeMenus(m1)
           m2   == MenAfterFree(m1, F)
           sub2 == SubAfterFree(submenu, F)
           m3   == close_all_submenus(m2, sub2, menu)
           m4   == [m3 EXCEPT ![menu].selItem = NULL, ![menu].enabled = TRUE]
       IN  \/ /\ menu_current = DANGLING
              /\ Crash("open_root")
           \/ /\ menu \in F
              /\ men' = m2
              /\ submenu' = sub2
              /\ menus' = ListAfterFree(menus, F)
              /\ current_menu' = MenuPtrAfterFree(current_menu, F)
              /\ ctx' = Track(CtxAfterFree(ctx, F), men')
              /\ menu_current' = MenuPtrAfterFree(menu_current, F)
              /\ crashed' = TRUE
              /\ last' = "open_root"
              /\ UNCHANGED <<input_mode, selected_item, waiting_for_pipe_menu,
                             killed>>
           \/ /\ men' = IF menu \in F THEN m2 ELSE m4
              /\ submenu' = sub2
              /\ menus' = ListAfterFree(menus, F)
              /\ current_menu' = MenuPtrAfterFree(current_menu, F)
              /\ ctx' = Track(CtxAfterFree(ctx, F), men')
              /\ menu_current' = IF menu \in F THEN DANGLING ELSE menu
              /\ input_mode' = "menu"
              /\ selected_item' = NULL
              /\ last' = "open_root"
              /\ UNCHANGED <<waiting_for_pipe_menu, killed, crashed>>

(* menu_reconfigure: menu_finish, then menu_init *)
menu_reconfigure ==
    /\ ~crashed
    /\ UNCHANGED bvars
    /\ LET F == {h \in Handles : men[h].live}
       IN  /\ current_menu' = MenuPtrAfterFree(current_menu, F)
           /\ men' = menu_init(current_menu', waiting_for_pipe_menu)
           /\ menus' = StaticMenus
           /\ submenu' = InitSubmenu
           /\ selected_item' = ItemPtrAfterFree(selected_item, F)
           /\ ctx' = Track(CtxAfterFree(ctx, F), men')
    /\ menu_current' = NULL
    /\ last' = "reconfigure"
    /\ UNCHANGED <<input_mode, waiting_for_pipe_menu, killed, crashed>>

(***************************************************************************)
(* The pipe-menu controller.  A buffer is its length and its text up to    *)
(* the first character that is not whitespace: what starts_with_less_than  *)
(* reads.                                                                  *)
(***************************************************************************)
IsSpace(ch) == ch \in {" ", "\t", "\r", "\n"}

RECURSIVE strspn(_, _)
strspn(t, k) == IF k <= Len(t) /\ IsSpace(t[k]) THEN strspn(t, k + 1) ELSE k - 1

(* fault: the guard against badly formed data lets everything through *)
always_less_than(t) == TRUE

starts_with_less_than(t) ==
    LET n == strspn(t, 1) IN n < Len(t) /\ t[n + 1] = "<"

SmallChunks == { <<"<">>, <<"x">>, <<" ">>, <<"\n", "<">> }

(* what read() can return: -1, 0 (end of stream), or up to ReadMax bytes *)
ReadResults(c) ==
    {[size |-> -1, data |-> <<>>], [size |-> 0, data |-> <<>>],
     [size |-> ReadMax, data |-> <<"x">>]}
    \cup (IF c.len < MaxSmallLen
          THEN {[size |-> Len(t), data |-> t] : t \in SmallChunks}
          ELSE {})

buf_add(c, r) ==
    [c EXCEPT !.len = @ + r.size,
              !.head = IF strspn(@, 1) < Len(@) THEN @ ELSE @ \o r.data]

(* pipemenu_ctx_destroy *)
pipemenu_ctx_destroy(c) ==
    /\ ctx' = ctx \ {c}
    /\ waiting_for_pipe_menu' = FALSE

(* create_pipe_menu, the item being live *)
create_pipe_menu(c) ==
    LET pipe_parent == Owner(c.item)
        h == ItemId(c.item)
    IN  IF ~men[pipe_parent].enabled
        THEN /\ last' = "discarded"
             /\ UNCHANGED <<menus, men, submenu, current_menu>>
        ELSE \E parsed \in BOOLEAN :
               IF ~parsed
               THEN /\ last' = "parse_error"
                    /\ current_menu' = pipe_parent
                    /\ UNCHANGED <<menus, men, submenu>>
               ELSE \E doc \in PipeDocs :
                      /\ last' = "complete"
                      /\ menus' = Append(menus, h)
                      /\ men' = [men EXCEPT
                            ![h] = [menu_create(h, current_menu,
                                        waiting_for_pipe_menu, DocItems(h, doc))
                                    EXCEPT !.is_pipemenu = TRUE,
                                           !.parent = pipe_parent,
                                           !.enabled = TRUE],
                            ![pipe_parent].selMenu = h]
                      /\ submenu' = [submenu EXCEPT ![c.item] = h]
                      /\ current_menu' = pipe_parent

(* create_pipe_menu through a freed item: the stale parent reads as closed, *)
(* or as open, and then the menu is built under a parent that is gone      *)
create_pipe_menu_stale(c) ==
    LET h == ItemId(c.item)
    IN  \/ /\ last' = "discarded"
           /\ UNCHANGED <<menus, men, submenu, current_menu>>
        \/ /\ ~men[h].live
           /\ \E doc \in PipeDocs :
                /\ last' = "complete"
                /\ menus' = Append(menus, h)
                /\ men' = [men EXCEPT
                      ![h] = [menu_create(h, current_menu,
                                  waiting_for_pipe_menu, DocItems(h, doc))
                              EXCEPT !.is_pipemenu = TRUE,
                                     !.parent = DANGLING,
                                     !.enabled = TRUE]]
                /\ submenu' = submenu
                /\ current_menu' = DANGLING

handle_pipemenu_readable(c, r) ==
    /\ ~crashed
    /\ UNCHANGED bvars
    /\ c \in ctx
    /\ r \in ReadResults(c)
    /\ IF r.size = -1
       THEN \/ /\ c.dangling
               /\ Crash("read_error")
            \/ /\ pipemenu_ctx_destroy(c)
               /\ last' = "read_error"
               /\ UNCHANGED <<menus, men, submenu, menu_current, input_mode,
                              selected_item, current_menu, killed, crashed>>
       ELSE IF c.len + r.size > PIPEMENU_MAX_BUF_SIZE
       THEN \/ /\ c.dangling
               /\ Crash("overflow")
            \/ /\ killed' = TRUE
               /\ pipemenu_ctx_destroy(c)
               /\ last' = "overflow"
               /\ UNCHANGED <<menus, men, submenu, menu_current, input_mode,
                              selected_item, current_menu, crashed>>
       ELSE IF r.size # 0
       THEN /\ ctx' = (ctx \ {c}) \cup {buf_add(c, r)}
            /\ last' = "data"
            /\ UNCHANGED <<menus, men, submenu, menu_current, input_mode,
                           selected_item, waiting_for_pipe_menu, current_menu,
                           killed, crashed>>
       ELSE IF ~starts_with_less_than(c.head)
       THEN /\ pipemenu_ctx_destroy(c)
            /\ last' = "malformed"
            /\ UNCHANGED <<menus, men, submenu, menu_current, input_mode,
                           selected_item, current_menu, killed, crashed>>
       ELSE \/ /\ c.dangling
               /\ Crash("complete")
            \/ /\ IF c.dangling THEN create_pipe_menu_stale(c)
                  ELSE create_pipe_menu(c)
               /\ pipemenu_ctx_destroy(c)
               /\ UNCHANGED <<menu_current, input_mode, selected_item, killed,
                              crashed>>

handle_pipemenu_timeout(c) ==
    /\ ~crashed
    /\ UNCHANGED bvars
    /\ c \in ctx
    /\ \/ /\ c.dangling
          /\ Crash("timeout")
       \/ /\ killed' = TRUE
          /\ pipemenu_ctx_destroy(c)
          /\ last' = "timeout"
          /\ UNCHANGED <<menus, men, submenu, menu_current, input_mode,
                         selected_item, current_menu, crashed>>

(***************************************************************************)
(* The specification                                                       *)
(***************************************************************************)
(* a short stream: no read of data once more than MaxBulk full reads are in *)
Readable ==
    \E c \in ctx : \E r \in ReadResults(c) :
        /\ r.size > 0 => c.len <= MaxBulk * ReadMax
        /\ handle_pipemenu_readable(c, r)

(* a stream of any length *)
ReadableLong ==
    \E c \in ctx : \E r \in ReadResults(c) : handle_pipemenu_readable(c, r)

Timeout == \E c \in ctx : handle_pipemenu_timeout(c)

Next ==
    \/ \E menu \in TopLevel : menu_open_root(menu)
    \/ menu_close_root
    \/ \E item \in Items : Hover(item)
    \/ menu_item_select_next
    \/ menu_item_select_previous
    \/ menu_submenu_enter
    \/ menu_submenu_leave
    \/ \E item \in Items : menu_call_actions(item)
    \/ menu_call_selected_actions
    \/ menu_reconfigure
    \/ Readable
    \/ Timeout

Spec == Init /\ [][Next]_vars

(* the pipe-menu controller under streams of any length, driven by the     *)
(* pointer alone                                                           *)
NextBuf ==
    \/ \E menu \in TopLevel : menu_open_root(menu)
    \/ menu_close_root
    \/ \E item \in Items : Hover(item)
    \/ ReadableLong
    \/ Timeout

SpecBuf == Init /\ [][NextBuf]_vars

(***************************************************************************)
(* The builder: menu_init, create_pipe_menu and what they call, on menus   *)
(* with their items, heights, offsets and action lists.  A menu of the     *)
(* registry is named by its position in server->menus; 0 is the null       *)
(* pointer.                                                                *)
(***************************************************************************)
item_height == 3
separator_height == 1

(* an action is valid or not by action_is_valid() of the executor *)
Act(n, v) == [name |-> n, valid |-> v]
A1 == Act("Execute", TRUE)
A2 == Act("Exit", TRUE)
B1 == Act("NoSuchAction", FALSE)
B2 == Act("Execute-without-command", FALSE)

action_is_valid(a) == a.valid

(* the elements of a menu document *)
ItemEl(acts) == [k |-> "item", id |-> NULL, acts |-> acts, body |-> <<>>]
SepEl == [k |-> "sep", id |-> NULL, acts |-> <<>>, body |-> <<>>]
LinkEl(id) == [k |-> "link", id |-> id, acts |-> <<>>, body |-> <<>>]
PipeEl(id) == [k |-> "pipe", id |-> id, acts |-> <<>>, body |-> <<>>]
MenuEl(id, body) == [k |-> "menu", id |-> id, acts |-> <<>>, body |-> body]
(* an <item> without label attribute *)
BareItemEl(acts) == [k |-> "bare", id |-> NULL, acts |-> acts, body |-> <<>>]

(* the menu.xml files a configuration may hold *)
Docs ==
    { <<MenuEl("root-menu", <<ItemEl(<<A1, B1, A2>>), SepEl, PipeEl("p")>>)>>,
      <<MenuEl("client-menu", <<ItemEl(<<B1, B2>>), LinkEl("workspaces")>>)>>,
      <<MenuEl("workspaces", <<ItemEl(<<A1>>)>>),
        MenuEl("client-menu", <<LinkEl("workspaces"), ItemEl(<<B1, A1>>),
                                LinkEl("workspaces")>>)>>,
      <<MenuEl("root-menu", <<MenuEl("sub", <<ItemEl(<<B2, A1, B1>>)>>),
                              ItemEl(<<A2>>)>>)>>,
      <<MenuEl("workspaces", <<SepEl>>)>>,
      <<MenuEl("client-menu", <<>>)>>,
      <<MenuEl("client-menu", <<MenuEl("workspaces", <<ItemEl(<<A1>>)>>),
                                SepEl, BareItemEl(<<A2>>)>>)>>,
      <<MenuEl("root-menu", <<ItemEl(<<A1>>), LinkEl("root-menu")>>)>> }

(* a candidate path of menu.xml: the file is there or fopen() fails *)
Missing == [exists |-> FALSE, doc |-> <<>>]
Sources == {[exists |-> TRUE, doc |-> d] : d \in Docs} \cup {Missing}

MaxSources == 2

RECURSIVE SeqsUpTo(_, _)
SeqsUpTo(S, n) ==
    IF n = 0 THEN {<<>>}
    ELSE SeqsUpTo(S, n - 1)
         \cup {Append(q, x) : q \in {t \in SeqsUpTo(S, n - 1) : Len(t) = n - 1},
                              x \in S}

(* rc.merge_config, the candidate paths of paths_config_create in list    *)
(* order, and the number of configured workspaces                          *)
Configs ==
    [sources : SeqsUpTo(Sources, MaxSources), merge : BOOLEAN,
     workspaces : {1, 2}]

(* what a pipe-menu command may print *)
PipeBodies ==
    { <<ItemEl(<<A1>>)>>,
      <<ItemEl(<<B1, A2, B2>>), MenuEl("root-menu", <<ItemEl(<<B1>>)>>)>>,
      <<LinkEl("root-menu"), SepEl, ItemEl(<<A2, B1>>)>> }

(* is_unique_id *)
is_unique_id_in(reg, id) == \A n \in 1..Len(reg) : reg[n].id # id

(* a pointer into the registry that menu_finish has freed *)
Freed == -1

(* menu_create: a duplicate id is logged and the menu is created all the   *)
(* same; its parent is the static current_menu                             *)
menu_create_in(reg, id, cur, waiting) ==
    Append(reg, [id |-> id, parent |-> cur, is_pipemenu |-> waiting,
                 height |-> 0, items |-> <<>>])

(* fault: the lookup returns the menu registered last under the id *)
RECURSIVE scan_last(_, _, _)
scan_last(reg, id, k) ==
    IF k > Len(reg) THEN 0
    ELSE LET later == scan_last(reg, id, k + 1)
         IN  IF later # 0 THEN later
             ELSE IF reg[k].id = id THEN k ELSE 0

(* the loop of menu_get_by_id *)
RECURSIVE scan_by_id(_, _, _)
scan_by_id(reg, id, k) ==
    IF k > Len(reg) THEN 0
    ELSE IF reg[k].id = id THEN k
    ELSE scan_by_id(reg, id, k + 1)

menu_get_by_id_in(reg, id) == IF id = NULL THEN 0 ELSE scan_by_id(reg, id, 1)

(* item_create: the item sits at the menu's height so far, which it raises *)
item_create(reg, m, sub, exec, id) ==
    [reg EXCEPT ![m].items = Append(@,
                    [kind |-> "item", height |-> item_height,
                     y |-> reg[m].height, submenu |-> sub, execute |-> exec,
                     id |-> id, actions |-> <<>>]),
                ![m].height = @ + item_height]

separator_create(reg, m) ==
    [reg EXCEPT ![m].items = Append(@,
                    [kind |-> "sep", height |-> separator_height,
                     y |-> reg[m].height, submenu |-> 0, execute |-> FALSE,
                     id |-> NULL, actions |-> <<>>]),
                ![m].height = @ + separator_height]

(* the parser's statics beside the registry: current_menu, and current_item *)
(* as the menu and the position of the item, <<0, 0>> for the null pointer  *)
NoItem == <<0, 0>>
Walk(reg, cur, item) ==
    [reg |-> reg, current_menu |-> cur, current_item |-> item]

(* current_item = the item just appended to menu m *)
made_in(st, reg, m) == Walk(reg, st.current_menu, <<m, Len(reg[m].items)>>)

(* fill_item: "label" starts a new item of current_menu; "name.action"     *)
(* appends to current_item whatever made it, and is an error without one   *)
fill_item(st, nodename, a) ==
    IF nodename = "label"
    THEN made_in(st, item_create(st.reg, st.current_menu, 0, FALSE, NULL),
                 st.current_menu)
    ELSE IF st.current_item = NoItem THEN st
    ELSE [st EXCEPT !.reg[st.current_item[1]].items[st.current_item[2]]
                        .actions = Append(@, a)]

RECURSIVE fill_actions(_, _, _)
fill_actions(st, acts, k) ==
    IF k > Len(acts) THEN st
    ELSE fill_actions(fill_item(st, "name.action", acts[k]), acts, k + 1)

(* fault: an id-only <menu> is linked whatever menu holds it *)
link_never_refused(reg, cur) == FALSE

(* the test of handle_menu_element before it links a menu by id *)
link_refused(reg, cur) == cur > 0 /\ reg[cur].is_pipemenu

(* xml_tree_walk over the children of a node, with handle_menu_element,    *)
(* handle_separator_element and the <item> branch                          *)
RECURSIVE xml_tree_walk(_, _, _, _, _)
xml_tree_walk(st, body, k, menu_level, waiting) ==
    IF k > Len(body) THEN st
    ELSE
      LET e == body[k]
          cur == st.current_menu
          s == CASE e.k = "item" ->
                      fill_actions(fill_item(st, "label", NULL), e.acts, 1)
                 [] e.k = "bare" -> fill_actions(st, e.acts, 1)
                 [] e.k = "sep" ->
                      made_in(st, separator_create(st.reg, cur), cur)
                 [] e.k = "pipe" ->
                      made_in(st, item_create(st.reg, cur, 0, TRUE, e.id), cur)
                 [] e.k = "menu" ->
                      LET s1 == IF menu_level > 0
                                THEN made_in(st, item_create(st.reg, cur,
                                         Len(st.reg) + 1, FALSE, NULL), cur)
                                ELSE st
                          r2 == menu_create_in(s1.reg, e.id, cur, waiting)
                          s3 == xml_tree_walk(
                                    Walk(r2, Len(r2), s1.current_item),
                                    e.body, 1, menu_level + 1, waiting)
                      IN  [s3 EXCEPT !.current_menu =
                                         s3.reg[s3.current_menu].parent]
                 [] OTHER ->
                      IF link_refused(st.reg, cur) THEN st
                      ELSE LET t == menu_get_by_id_in(st.reg, e.id)
                           IN  IF t = 0 THEN st
                               ELSE made_in(st, item_create(st.reg, cur, t,
                                                FALSE, NULL), cur)
      IN  xml_tree_walk(s, body, k + 1, menu_level, waiting)

(* paths_get_prev walks the candidate list backwards, paths_get_next       *)
(* forwards                                                                *)
Reverse(q) == [n \in 1..Len(q) |-> q[Len(q) + 1 - n]]
IterationOrder(cfg) == IF cfg.merge THEN Reverse(cfg.sources) ELSE cfg.sources

(* parse_xml: the loop over the candidates; a failed fopen() returns, and  *)
(* without merge_config the loop breaks after the first file               *)
RECURSIVE parse_xml(_, _, _, _, _)
parse_xml(st, todo, k, merge, waiting) ==
    IF k > Len(todo) THEN st
    ELSE IF ~todo[k].exists THEN st
    ELSE LET s1 == xml_tree_walk(st, todo[k].doc, 1, 0, waiting)
         IN  IF ~merge THEN s1
             ELSE parse_xml(s1, todo, k + 1, merge, waiting)

(* current_item = item_create(menu, label, false); fill_item("name.action") *)
plain_item(st, m, n) ==
    fill_item(made_in(st, item_create(st.reg, m, 0, FALSE, NULL), m),
              "name.action", Act(n, TRUE))

init_rootmenu(st, waiting) ==
    LET found == menu_get_by_id_in(st.reg, "root-menu")
        s1 == IF found = 0
              THEN Walk(menu_create_in(st.reg, "root-menu", 0, waiting), 0,
                        st.current_item)
              ELSE st
        m  == IF found = 0 THEN Len(s1.reg) ELSE found
    IN  IF s1.reg[m].items # <<>> THEN s1
        ELSE plain_item(plain_item(s1, m, "Reconfigure"), m, "Exit")

(* the re-positioning loop of menu_hide_submenu *)
RECURSIVE reposition(_, _, _)
reposition(its, k, h) ==
    IF k > Len(its) THEN [items |-> its, height |-> h]
    ELSE reposition([its EXCEPT ![k].y = h], k + 1, h + its[k].height)

menu_hide_submenu(reg, id) ==
    LET hide_menu == menu_get_by_id_in(reg, id)
    IN  IF hide_menu = 0 THEN reg
        ELSE [m \in 1..Len(reg) |->
                LET kept == SelectSeq(reg[m].items,
                                      LAMBDA it : it.submenu # hide_menu)
                    new  == reposition(kept, 1, 0)
                IN  IF Len(kept) = Len(reg[m].items) THEN reg[m]
                    ELSE [reg[m] EXCEPT !.items = new.items,
                                        !.height = new.height]]

init_windowmenu(st, waiting, workspaces) ==
    LET found == menu_get_by_id_in(st.reg, "client-menu")
        s1 == IF found = 0
              THEN Walk(menu_create_in(st.reg, "client-menu", 0, waiting), 0,
                        st.current_item)
              ELSE st
        m  == IF found = 0 THEN Len(s1.reg) ELSE found
        s2 == plain_item(plain_item(plain_item(plain_item(plain_item(
                  plain_item(s1, m, "Iconify"), m, "ToggleMaximize"), m,
                  "ToggleFullscreen"), m, "ToggleShade"), m,
                  "ToggleDecorations"), m, "ToggleAlwaysOnTop")
        s3 == Walk(menu_create_in(s2.reg, "workspaces", s2.current_menu,
                                  waiting), s2.current_menu, s2.current_item)
        w  == Len(s3.reg)
        s4 == plain_item(s3, w, "SendToDesktop")
        s5 == plain_item(s4, w, "SendToDesktop")
        s6 == plain_item(made_in(s5, separator_create(s5.reg, w), w), w,
                         "ToggleOmnipresent")
        s7 == plain_item(made_in(s6, item_create(s6.reg, m, w, FALSE, NULL),
                                 m), m, "Close")
        s8 == IF s1.reg[m].items # <<>> THEN s1 ELSE s7
    IN  IF workspaces = 1
        THEN [s8 EXCEPT !.reg = menu_hide_submenu(s8.reg, "workspaces")]
        ELSE s8

(* fault: validation that removes nothing *)
keep_all(acts, k) == SubSeq(acts, k, Len(acts))

(* the wl_list_for_each_safe loop of validate_menu over one item's actions *)
RECURSIVE drop_invalid(_, _)
drop_invalid(acts, k) ==
    IF k > Len(acts) THEN <<>>
    ELSE IF action_is_valid(acts[k]) THEN <<acts[k]>> \o drop_invalid(acts, k + 1)
    ELSE drop_invalid(acts, k + 1)

validate_menu(menu) ==
    [menu EXCEPT !.items =
        [k \in 1..Len(menu.items) |->
            [menu.items[k] EXCEPT !.actions = drop_invalid(@, 1)]]]

validate(reg) == [m \in 1..Len(reg) |-> validate_menu(reg[m])]

(* menu_init up to its call of validate, from the current_menu that the    *)
(* last build or splice left behind                                        *)
menu_init_walk(cfg, waiting, cur) ==
    init_windowmenu(
        init_rootmenu(
            parse_xml(Walk(<<>>, cur, NoItem), IterationOrder(cfg), 1,
                      cfg.merge, waiting),
            waiting),
        waiting, cfg.workspaces)

(* menu_finish frees every menu: a current_menu that pointed to one dangles *)
Stale(cur) == IF cur = 0 THEN 0 ELSE Freed

(* the registry menu_init has built when it calls validate *)
before_validate(cfg, waiting) ==
    menu_init_walk(cfg, waiting, Stale(bcursor)).reg

menu_init_from(cfg, waiting) == validate(before_validate(cfg, waiting))

(* create_pipe_menu up to its call of validate: the menu for item k of     *)
(* menu m, filled from the command's output                                *)
spliced(reg, m, k, body) ==
    LET r0 == menu_create_in(reg, reg[m].items[k].id, bcursor, TRUE)
        p  == Len(r0)
        r1 == [r0 EXCEPT ![p].parent = m]
        s2 == xml_tree_walk(Walk(r1, p, NoItem), body, 1, 1, TRUE)
    IN  [s2.reg EXCEPT ![m].items[k].submenu = p]

create_pipe_menu_in(reg, m, k, body) == validate(spliced(reg, m, k, body))

(***************************************************************************)
(* Placement: menu_update_width, menu_get_full_width and menu_configure.   *)
(* One output lies in the layout at (Output.x, Output.y); its usable area  *)
(* is smaller than the output.  An alignment is the set of its bits, the   *)
(* empty set being LAB_MENU_OPEN_AUTO.                                     *)
(***************************************************************************)
menu_min_width == 3
menu_max_width == 4
menu_item_padding_x == 1
menu_overlap_x == 1
menu_overlap_y == 0
text_width == 3
arrow_width == 2
Output == [x |-> 2, y |-> 0, width |-> 18, height |-> 28]
usable_area == [width |-> 16, height |-> 26]
LAB_MENU_OPEN_AUTO == {}

(* item_create: the width of the label, and of the arrow when there is one *)
native_width(it) ==
    IF it.kind = "sep" THEN 0
    ELSE text_width + (IF it.submenu # 0 \/ it.execute THEN arrow_width ELSE 0)

(* the first loop of menu_update_width *)
RECURSIVE widest(_, _, _)
widest(its, k, max_width) ==
    IF k > Len(its) THEN max_width
    ELSE widest(its, k + 1,
                IF native_width(its[k]) > max_width
                THEN IF native_width(its[k]) < menu_max_width
                     THEN native_width(its[k]) ELSE menu_max_width
                ELSE max_width)

(* menu->size.width as post_processing leaves it *)
menu_update_width(menu) ==
    widest(menu.items, 1, menu_min_width) + 2 * menu_item_padding_x

(* menu->item_height: set by the first item_create on the menu *)
menu_item_height(menu) ==
    IF \E k \in 1..Len(menu.items) : menu.items[k].kind = "item"
    THEN item_height ELSE 0

(* fault: the width of the menu alone, without its submenus *)
own_width_only(reg, m) == menu_update_width(reg[m]) - menu_overlap_x

RECURSIVE max_child_width(_, _, _, _)
RECURSIVE menu_get_full_width(_, _)
menu_get_full_width(reg, m) ==
    menu_update_width(reg[m]) - menu_overlap_x + max_child_width(reg, m, 1, 0)

(* the loop of menu_get_full_width over the items *)
max_child_width(reg, m, k, max) ==
    IF k > Len(reg[m].items) THEN max
    ELSE IF reg[m].items[k].submenu = 0 THEN max_child_width(reg, m, k + 1, max)
    ELSE LET child_width == menu_get_full_width(reg, reg[m].items[k].submenu)
         IN  max_child_width(reg, m, k + 1,
                             IF child_width > max THEN child_width ELSE max)

(* wlr_output_layout_output_at: is the layout point on the output *)
output_at(lx, ly) ==
    /\ lx >= Output.x /\ lx < Output.x + Output.width
    /\ ly >= Output.y /\ ly < Output.y + Output.height

(* what menu_configure keeps per menu: the position of its scene node and  *)
(* menu->align; and, as history, whether the last call tree configured it, *)
(* whether it was asked to choose its alignment, and at which point        *)
Unplaced ==
    [x |-> 0, y |-> 0, align |-> LAB_MENU_OPEN_AUTO, fresh |-> FALSE,
     auto |-> FALSE, at_x |-> 0, at_y |-> 0]
NonePlaced(reg) == [m \in 1..Len(reg) |-> Unplaced]
Settled(pl, reg) ==
    [m \in 1..Len(reg) |->
        IF m <= Len(pl) THEN [pl[m] EXCEPT !.fresh = FALSE] ELSE Unplaced]

get_submenu_position(reg, pl, m, k, align) ==
    [x |-> IF "RIGHT" \in align
           THEN pl[m].x + menu_update_width(reg[m]) - menu_overlap_x
           ELSE pl[m].x,
     y |-> pl[m].y + reg[m].items[k].y - menu_overlap_y]

RECURSIVE configure_items(_, _, _, _, _)
RECURSIVE menu_configure(_, _, _, _, _, _)
menu_configure(reg, pl, m, lx, ly, align) ==
    IF ~output_at(lx, ly) THEN pl
    ELSE
      LET ox == lx - Output.x
          oy == ly - Output.y
          a1 == IF align = LAB_MENU_OPEN_AUTO
                THEN IF ox + menu_get_full_width(reg, m) > usable_area.width
                     THEN {"LEFT"} ELSE {"RIGHT"}
                ELSE align
          a2 == IF oy + reg[m].height > usable_area.height
                THEN (a1 \ {"BOTTOM"}) \cup {"TOP"}
                ELSE (a1 \ {"TOP"}) \cup {"BOTTOM"}
          x2 == IF "LEFT" \in a2
                THEN lx - (menu_update_width(reg[m]) - menu_overlap_x)
                ELSE lx
          y2 == IF "TOP" \in a2
                THEN ly - reg[m].height
                     + (IF reg[m].parent # 0 THEN menu_item_height(reg[m])
                        ELSE 0)
                ELSE ly
          pl2 == [pl EXCEPT ![m] =
                     [x |-> x2, y |-> y2, align |-> a2, fresh |-> TRUE,
                      auto |-> (align = LAB_MENU_OPEN_AUTO), at_x |-> lx,
                      at_y |-> ly]]
      IN  configure_items(reg, pl2, m, 1, a2)

(* the loop of menu_configure over the items with a submenu *)
configure_items(reg, pl, m, k, align) ==
    IF k > Len(reg[m].items) THEN pl
    ELSE IF reg[m].items[k].submenu = 0
    THEN configure_items(reg, pl, m, k + 1, align)
    ELSE LET pos == get_submenu_position(reg, pl, m, k, align)
         IN  configure_items(reg,
                 menu_configure(reg, pl, reg[m].items[k].submenu, pos.x,
                                pos.y, align),
                 m, k + 1, align)

(* create_pipe_menu configures the new menu from the alignment and the     *)
(* position of the menu that holds the pipe item                           *)
configure_pipe_menu(reg, pl, m, k) ==
    LET old == Settled(pl, reg)
        x   == old[m].x + (IF "RIGHT" \in old[m].align
                           THEN menu_update_width(reg[m]) ELSE 0)
        y   == old[m].y + reg[m].items[k].y
    IN  menu_configure(reg, old, reg[m].items[k].submenu, x, y, old[m].align)

(***************************************************************************)
(* The builder as a state machine: the server after menu_init, then        *)
(* reconfigurations, pipe menus spliced in, and items activated.           *)
(***************************************************************************)
InitBuild ==
    /\ menus = StaticMenus
    /\ men = menu_init(NULL, FALSE)
    /\ submenu = InitSubmenu
    /\ menu_current = NULL
    /\ input_mode = "passthrough"
    /\ selected_item = NULL
    /\ waiting_for_pipe_menu = FALSE
    /\ current_menu = NULL
    /\ ctx = {}
    /\ killed = FALSE
    /\ crashed = FALSE
    /\ last = "init"
    /\ config \in Configs
    /\ built = validate(menu_init_walk(config, FALSE, 0).reg)
    /\ bcursor = menu_init_walk(config, FALSE, 0).current_menu
    /\ handed = <<>>
    /\ placed = NonePlaced(built)

(* menu_reconfigure: menu_finish empties server->menus, menu_init rebuilds *)
menu_reconfigure_build ==
    /\ built' = menu_init_from(config, waiting_for_pipe_menu)
    /\ bcursor' = menu_init_walk(config, waiting_for_pipe_menu,
                                 Stale(bcursor)).current_menu
    /\ placed' = NonePlaced(built')
    /\ UNCHANGED <<config, handed, progVars, last>>

(* a pipe item whose command ran to completion: parse_pipemenu let it      *)
(* start because no menu held its id, create_pipe_menu splices the output  *)
create_pipe_menu_at(m, k, body) ==
    /\ built[m].items[k].execute
    /\ built[m].items[k].submenu = 0
    /\ is_unique_id_in(built, built[m].items[k].id)
    /\ built' = create_pipe_menu_in(built, m, k, body)
    /\ bcursor' = m
    /\ placed' = configure_pipe_menu(built', placed, m, k)
    /\ UNCHANGED <<config, handed, progVars, last>>

create_pipe_menu_build ==
    \E m \in 1..Len(built) : \E k \in 1..Len(built[m].items) :
      \E body \in PipeBodies : create_pipe_menu_at(m, k, body)

(* menu_execute_item on a selectable item without submenu: its action list *)
(* goes to actions_run                                                     *)
menu_execute_item_build ==
    \E m \in 1..Len(built) : \E k \in 1..Len(built[m].items) :
        /\ built[m].items[k].kind = "item"
        /\ built[m].items[k].submenu = 0
        /\ handed' = built[m].items[k].actions
        /\ UNCHANGED <<config, built, bcursor, placed, progVars, last>>

NextBuild ==
    \/ menu_reconfigure_build
    \/ create_pipe_menu_build
    \/ menu_execute_item_build

SpecBuild == InitBuild /\ [][NextBuild]_vars

(***************************************************************************)
(* Placement as a state machine: a configuration is built, a menu is       *)
(* opened as root at a point of the layout, a pipe item of a placed menu   *)
(* gets its menu, the configuration is rebuilt.                            *)
(***************************************************************************)
DeepDoc ==
    <<MenuEl("root-menu",
             <<MenuEl("a", <<ItemEl(<<A1>>),
                             MenuEl("b", <<ItemEl(<<A2>>)>>)>>),
               MenuEl("c", <<ItemEl(<<A1>>)>>),
               PipeEl("p")>>)>>

PlaceConfigs ==
    [sources : {<<>>} \cup {<<[exists |-> TRUE, doc |-> d]>> :
                               d \in Docs \cup {DeepDoc}},
     merge : {FALSE}, workspaces : {1, 2}]

(* the layout points a menu is opened at *)
PlaceX == {2, 6, 12, 18}
PlaceY == {0, 8, 22}

(* the menus that the items of menu m open *)
Succ(reg, m) ==
    {reg[m].items[k].submenu : k \in 1..Len(reg[m].items)} \ {0}

RECURSIVE ReachFrom(_, _, _)
ReachFrom(reg, S, n) ==
    IF n = 0 THEN S
    ELSE ReachFrom(reg, S \cup UNION {Succ(reg, m) : m \in S}, n - 1)

(* the menus that a walk over submenus visits: from m, and from the        *)
(* submenus of m                                                           *)
Below(reg, m) == ReachFrom(reg, {m}, Len(reg))
Below1(reg, m) == ReachFrom(reg, Succ(reg, m), Len(reg))

InitPlace ==
    /\ menus = StaticMenus
    /\ men = menu_init(NULL, FALSE)
    /\ submenu = InitSubmenu
    /\ menu_current = NULL
    /\ input_mode = "passthrough"
    /\ selected_item = NULL
    /\ waiting_for_pipe_menu = FALSE
    /\ current_menu = NULL
    /\ ctx = {}
    /\ killed = FALSE
    /\ crashed = FALSE
    /\ last = "init"
    /\ config \in PlaceConfigs
    /\ built = validate(menu_init_walk(config, FALSE, 0).reg)
    /\ bcursor = menu_init_walk(config, FALSE, 0).current_menu
    /\ handed = <<>>
    /\ placed = NonePlaced(built)

(* menu_open_root for the first time after a build, on a menu whose        *)
(* submenu walks (close_all_submenus, menu_get_full_width, menu_configure) *)
(* come to an end                                                          *)
menu_open_root_place ==
    \E m \in 1..Len(built) : \E x \in PlaceX : \E y \in PlaceY :
        /\ placed = NonePlaced(built)
        /\ \A n \in Below(built, m) : n \notin Below1(built, n)
        /\ placed' = menu_configure(built, Settled(placed, built), m, x, y,
                                    LAB_MENU_OPEN_AUTO)
        /\ UNCHANGED <<config, built, handed, bcursor, progVars, last>>

(* create_pipe_menu for a pipe item of a menu that has been placed *)
create_pipe_menu_place ==
    \E m \in 1..Len(built) : \E k \in 1..Len(built[m].items) :
      \E body \in PipeBodies :
        /\ placed[m].align # LAB_MENU_OPEN_AUTO
        /\ create_pipe_menu_at(m, k, body)

NextPlace ==
    \/ menu_open_root_place
    \/ create_pipe_menu_place
    \/ menu_reconfigure_build

SpecPlace == InitPlace /\ [][NextPlace]_vars

(***************************************************************************)
(* Properties                                                              *)
(***************************************************************************)
EndOfStream == [size |-> 0, data |-> <<>>]

(* the menus on screen *)
ShownMenus(m) == {h \in Handles : m[h].live /\ m[h].enabled}

(* the menus a pipe-menu command produced *)
PipeSourced(m) == {h \in PipeHandles : m[h].live}

(* the menus reached from h along the open-child pointers *)
RECURSIVE PathFrom(_, _)
PathFrom(h, n) ==
    IF h \in {NULL, DANGLING} \/ n = 0 THEN {}
    ELSE {h} \cup PathFrom(men[h].selMenu, n - 1)

OpenPath == PathFrom(menu_current, Cardinality(Handles))

(* a step in which menu_process_item_selection gave item the focus *)
SelectStep(item) ==
    /\ last' = "select"
    /\ ~crashed'
    /\ selected_item' = item

(* C1: at most one pipe-menu request is in flight at any time, and a       *)
(* hover of any item while a request is pending spawns nothing: the set of *)
(* requests is left as it was.                                             *)
C1_OneRequestInFlight ==
    /\ [](Cardinality(ctx) <= 1)
    /\ [][\A item \in Items :
            (Hover(item) /\ ctx # {}) => ctx' = ctx]_vars

C1_Witness ==
    /\ last = "select_ignored"
    /\ waiting_for_pipe_menu
    /\ Cardinality(ctx) = 1

(* C2: once the menu holding the triggering item has been closed while the *)
(* request was pending (the item itself still existing), the end of the    *)
(* request builds and shows no menu and attaches no submenu, whatever      *)
(* happened in between, a top-level menu being opened again included.      *)
C2_StaleCompletionDiscarded ==
    [][\A c \in ctx :
         (c.closed /\ ~c.dangling /\ ctx' = {}) =>
             /\ menus' = menus
             /\ submenu' = submenu
             /\ ShownMenus(men') = ShownMenus(men)
             /\ PipeSourced(men') = PipeSourced(men)]_vars

(* C3: every spawned request reaches Closed: while a request exists its    *)
(* timer can still fire (and then closes it), and the pending flag is true *)
(* exactly while a request exists.                                         *)
C3_RequestReachesClosed ==
    /\ waiting_for_pipe_menu <=> ctx # {}
    /\ ctx # {} => ENABLED Timeout

(* C4: after Close root, in a run of open, select, next, previous, enter,  *)
(* leave, activate and pipe-menu events, no menu is shown, the highlighted *)
(* item and open child of every menu of the path that was open are null,   *)
(* no menu is active, no generated menu remains, and the input mode is     *)
(* back to passthrough.                                                    *)
C4_CloseRootClosesAll ==
    [][(menu_close_root /\ menu_current \in TopLevel) =>
          /\ ShownMenus(men') = {}
          /\ \A h \in OpenPath :
                men'[h].selItem = NULL /\ men'[h].selMenu = NULL
          /\ menu_current' = NULL
          /\ PipeSourced(men') = {}
          /\ \A h \in Handles : ~(men'[h].live /\ men'[h].is_pipemenu)
          /\ input_mode' = "passthrough"]_vars

C4_Witness ==
    /\ last = "close_root"
    /\ ~crashed
    /\ current_menu = "S"

(* C5: the menus shown are exactly the chain of open-child pointers that   *)
(* starts at the active top-level menu.                                    *)
C5_ShownIsOpenPath == ShownMenus(men) = OpenPath

(* C6: a selection that highlights a selectable item I of menu M leaves    *)
(* M's open child equal to I's submenu, null when I has none.              *)
C6_OpenChildFollowsHighlight ==
    [][\A item \in Items :
         (SelectStep(item) /\ Selectable(item)) =>
             men'[Owner(item)].selMenu = submenu'[item]]_vars

(* C7: Hover of the item selected last, or of any item while a request is  *)
(* pending, changes nothing; any other Hover makes its item the one        *)
(* selected last, so that repeating it changes nothing.  (A dangling       *)
(* selected_item that aliases the item compares equal both times.)         *)
C7_HoverIdempotent ==
    [][\A item \in Items :
         Hover(item) =>
             IF item = selected_item \/ waiting_for_pipe_menu
             THEN UNCHANGED progVars
             ELSE selected_item' = item \/ selected_item = DANGLING]_vars

C7_Witness ==
    /\ last = "select_ignored"
    /\ ~waiting_for_pipe_menu
    /\ selected_item = "r_pipe"
    /\ submenu["r_pipe"] = NULL
    /\ ctx = {}

(* C8: generated menus are cached through an interaction: no selection or  *)
(* navigation step destroys one, selecting a pipe item whose menu exists   *)
(* shows that menu and spawns nothing, and the end of the interaction      *)
(* (Close root, Activate, the next Open root) destroys them all.           *)
C8_PipeMenusCached ==
    [][/\ (last' \in {"select", "select_ignored"} /\ ~crashed') =>
            \A h \in PipeSourced(men) :
                men'[h].live /\ men'[h].items = men[h].items
       /\ \A item \in Items :
            (SelectStep(item) /\ Execute(item) /\ submenu[item] # NULL) =>
                /\ submenu'[item] = submenu[item]
                /\ men'[submenu[item]].enabled
                /\ ctx' = ctx
       /\ (menu_current \in TopLevel /\
              \/ menu_close_root
              \/ last' = "activate"
              \/ \E menu \in TopLevel : menu_open_root(menu)) =>
            PipeSourced(men') = {}]_vars

C8_Witness ==
    /\ last = "select"
    /\ selected_item = "r_term"
    /\ men["P"].live
    /\ ~men["P"].enabled
    /\ submenu["r_pipe"] = "P"

(* C9: the buffer never holds more than PIPEMENU_MAX_BUF_SIZE bytes; a     *)
(* read that would take it past that sends the termination signal, closes  *)
(* the request and attaches no submenu; a read that keeps it at or below   *)
(* that is not rejected for size.                                          *)
C9_BufferCapped ==
    /\ [](\A c \in ctx : c.len <= PIPEMENU_MAX_BUF_SIZE)
    /\ [][\A c \in ctx : \A r \in ReadResults(c) :
            (handle_pipemenu_readable(c, r) /\ r.size >= 0) =>
                IF c.len + r.size > PIPEMENU_MAX_BUF_SIZE
                THEN /\ killed'
                     /\ ctx' = {}
                     /\ ~waiting_for_pipe_menu'
                     /\ submenu' = submenu
                ELSE last' # "overflow"]_vars

(* C10: at end of stream a menu is built only if the first character of    *)
(* the buffer that is not whitespace is '<'; otherwise the request closes  *)
(* as malformed and no menu or submenu is touched.                         *)
FirstNonSpaceIsLt(t) ==
    \E k \in 1..Len(t) :
        /\ t[k] = "<"
        /\ \A j \in 1..(k - 1) : t[j] \in {" ", "\t", "\r", "\n"}

C10_CompleteOnlyOnLessThan ==
    [][\A c \in ctx :
         /\ (last' = "complete" /\ c \notin ctx') => FirstNonSpaceIsLt(c.head)
         /\ (handle_pipemenu_readable(c, EndOfStream)
                /\ ~FirstNonSpaceIsLt(c.head)) =>
                /\ last' = "malformed"
                /\ ctx' = ctx \ {c}
                /\ ~waiting_for_pipe_menu'
                /\ UNCHANGED <<menus, men, submenu>>]_vars

C10_Witness ==
    /\ last = "malformed"
    /\ ctx = {}
    /\ ~waiting_for_pipe_menu

(* C11: when the timer fires, the subprocess is sent the termination       *)
(* signal, the request is closed with its partial output unparsed, and the *)
(* menus, their state and the submenu links stay as they were.             *)
C11_TimeoutDiscards ==
    [][\A c \in ctx :
         handle_pipemenu_timeout(c) =>
             /\ killed'
             /\ ctx' = {}
             /\ ~waiting_for_pipe_menu'
             /\ UNCHANGED <<menus, men, submenu>>]_vars

(* how a request can end in error: parse failure, malformed or oversized   *)
(* output, read error, timeout                                             *)
ErrorEnds == {"parse_error", "malformed", "overflow", "read_error", "timeout"}

(* item i is a pipe item on screen whose request ended without a menu, no  *)
(* request is pending, and a menu could be registered under its id         *)
Retryable(i) ==
    /\ ~crashed
    /\ input_mode = "menu"
    /\ Visible(i)
    /\ Execute(i)
    /\ submenu[i] = NULL
    /\ ctx = {}
    /\ ~waiting_for_pipe_menu
    /\ ItemId(i) \notin {menus[n] : n \in 1..Len(menus)}

StartsRequest(i) ==
    /\ Cardinality(ctx') > Cardinality(ctx)
    /\ \E c \in ctx' : c.item = i /\ ~c.dangling /\ c.len = 0

(* C12 as stated: after a request for item I ended in error, the next      *)
(* Hover of I, while the menu is still open, starts a new request.         *)
C12_NextHoverRetries ==
    \A i \in Items :
        (Retryable(i) /\ last \in ErrorEnds /\ selected_item = i)
            => ENABLED (Hover(i) /\ StartsRequest(i))

(* C12 amended: a request starts only in a selection step, never by        *)
(* itself; a Hover of I while I is still the last-selected item changes    *)
(* nothing; once another item (or none) is the last-selected one, a Hover  *)
(* of I can start a new request.                                           *)
C12_RetryNeedsReselection ==
    /\ [](\A i \in Items :
            (Retryable(i) /\ selected_item \notin {i, DANGLING})
                => ENABLED (Hover(i) /\ StartsRequest(i)))
    /\ [][\A i \in Items :
            /\ StartsRequest(i) => (last' = "select" /\ selected_item' = i)
            /\ (Hover(i) /\ selected_item = i) => ctx' = ctx]_vars

C12_Witness ==
    /\ last = "select_ignored"
    /\ killed
    /\ Retryable("r_pipe")
    /\ selected_item = "r_pipe"

(* the menus reached from h along the submenu links of the items *)
RECURSIVE LinkedFrom(_, _, _, _)
LinkedFrom(m, sub, h, n) ==
    IF h \in {NULL, DANGLING} THEN {}
    ELSE IF n = 0 THEN {h}
    ELSE {h} \cup UNION {LinkedFrom(m, sub, sub[m[h].items[k]], n - 1) :
                            k \in 1..Len(m[h].items)}

(* C13: after Open root(menu), from any prior state, the previously active *)
(* top-level menu is closed, no pipe-generated menu is left, the given     *)
(* menu is shown and active and is the only menu shown, no menu linked     *)
(* from it has a highlighted item or an open child, the last-selected      *)
(* marker is cleared and the input mode is menu.                           *)
C13_OpenRootPost ==
    [][\A menu \in TopLevel :
         menu_open_root(menu) =>
             /\ (menu_current \in Handles \ {menu}
                    => ~(men'[menu_current].live /\ men'[menu_current].enabled))
             /\ PipeSourced(men') = {}
             /\ menu_current' = menu
             /\ ShownMenus(men') = {menu}
             /\ \A h \in LinkedFrom(men', submenu', menu, Cardinality(Handles)) :
                    men'[h].selItem = NULL /\ men'[h].selMenu = NULL
             /\ selected_item' = NULL
             /\ input_mode' = "menu"]_vars

(* the item an activation step is for: the visible item clicked, or the    *)
(* highlighted item of the selection leaf                                  *)
ActivateStep(item) ==
    \/ /\ Visible(item)
       /\ menu_call_actions(item)
    \/ /\ menu_current # DANGLING
       /\ get_selection_leaf # NULL
       /\ men[get_selection_leaf].selItem = item
       /\ menu_call_selected_actions

C15_RefusedActivateNoChange ==
    [][\A item \in Items :
         ~ /\ submenu[item] # NULL \/ item = "r_sep"
           /\ progVars' # progVars
           /\ ActivateStep(item)]_vars

C15_Witness ==
    /\ last = "activate_refused"
    /\ selected_item = "r_sub"
    /\ men["S"].enabled
    /\ menu_current = "R"

(* the selectable item of menu h nearest after (before) the highlighted    *)
(* one in the circular order of the list, the highlighted one excluded;    *)
(* with nothing highlighted the first (last) selectable item; NULL when    *)
(* there is none                                                           *)
Nearest(h, forward) ==
    LET its  == men[h].items
        n    == Len(its)
        s    == IF men[h].selItem = NULL THEN 0
                ELSE CHOOSE k \in 1..n : its[k] = men[h].selItem
        cand == {k \in 1..n : Selectable(its[k]) /\ k # s}
        dist(k) == IF forward THEN (k - s + n + 1) % (n + 1)
                   ELSE (s - k + n + 1) % (n + 1)
    IN  IF cand = {} THEN NULL
        ELSE its[CHOOSE k \in cand : \A j \in cand : dist(k) <= dist(j)]

MovesTo(forward) ==
    LET leaf == get_selection_leaf
        e    == Nearest(leaf, forward)
    IN  IF e = NULL THEN UNCHANGED progVars
        ELSE men'[leaf].selItem = e /\ selected_item' = e

(* C16: with no request pending, Next (Previous) moves the highlight of    *)
(* the selection-leaf menu to the nearest selectable item after (before)   *)
(* the highlighted one, skipping non-selectable items and wrapping around; *)
(* it changes nothing when there is no other selectable item.              *)
C16_NextPreviousNearest ==
    [][(~waiting_for_pipe_menu /\ menu_current \in Handles) =>
         /\ menu_item_select_next => MovesTo(TRUE)
         /\ menu_item_select_previous => MovesTo(FALSE)]_vars

C16_Witness ==
    /\ last = "select"
    /\ ~crashed
    /\ selected_item = "s_pipe"
    /\ men["S"].selItem = "s_pipe"
    /\ ~men["S"].enabled

(* C17: the ids of the menus in server->menus are unique at all times,     *)
(* after any sequence of configuration builds and pipe-menu generations.   *)
C17_MenuIdsUnique ==
    \A i \in 1..Len(built) : \A j \in 1..Len(built) :
        built[i].id = built[j].id => i = j

LookupIds == {NULL, "no-such-menu", "root-menu", "client-menu", "workspaces",
              "sub", "p"}

(* the menu registered first under id; 0 (not found) for the null id and   *)
(* for an id no menu has                                                   *)
FirstRegistered(reg, id) ==
    LET hits == {n \in 1..Len(reg) : reg[n].id = id}
    IN  IF id = NULL \/ hits = {} THEN 0
        ELSE CHOOSE n \in hits : \A k \in hits : n <= k

(* C18: lookup by id returns the first-registered menu with that id when   *)
(* there is one, and not-found for the null id and for an unknown id.      *)
C18_LookupFirstRegistered ==
    \A id \in LookupIds :
        menu_get_by_id_in(built, id) = FirstRegistered(built, id)

C18_Witness ==
    \E i \in 1..Len(built) : \E j \in 1..Len(built) :
        /\ i < j
        /\ built[i].id = built[j].id
        /\ menu_get_by_id_in(built, built[j].id) = i
        /\ menu_get_by_id_in(built, "no-such-menu") = 0

OnlyValid(acts) == \A n \in 1..Len(acts) : acts[n].valid

(* registry after is registry before with, in every item of every menu,    *)
(* exactly the invalid actions taken out and the rest in their order       *)
InvalidRemoved(before, after) ==
    /\ Len(after) = Len(before)
    /\ \A m \in 1..Len(before) :
         /\ Len(after[m].items) = Len(before[m].items)
         /\ \A k \in 1..Len(before[m].items) :
              after[m].items[k].actions =
                  SelectSeq(before[m].items[k].actions, LAMBDA a : a.valid)

(* C19: validation removes exactly the invalid actions from every item of  *)
(* every menu and keeps the valid ones in order; after the initial build   *)
(* and after every pipe-menu splice no action handed to the executor is    *)
(* invalid.                                                                *)
C19_OnlyValidActionsRun ==
    /\ [](/\ OnlyValid(handed)
          /\ \A m \in 1..Len(built) : \A k \in 1..Len(built[m].items) :
               OnlyValid(built[m].items[k].actions))
    /\ [][/\ menu_reconfigure_build =>
               InvalidRemoved(before_validate(config, waiting_for_pipe_menu),
                              built')
          /\ \A m \in 1..Len(built) : \A k \in 1..Len(built[m].items) :
               \A body \in PipeBodies :
                 (/\ built[m].items[k].execute
                  /\ built[m].items[k].submenu = 0
                  /\ built' = create_pipe_menu_in(built, m, k, body))
                     => InvalidRemoved(spliced(built, m, k, body), built')]_vars

C19_Witness ==
    /\ handed = <<A1, A2>>
    /\ \E m \in 1..Len(built) : \E k \in 1..Len(built[m].items) :
         /\ built[m].is_pipemenu
         /\ built[m].items[k].actions = <<A2>>

RECURSIVE SumHeights(_, _)
SumHeights(its, n) == IF n = 0 THEN 0 ELSE SumHeights(its, n - 1) + its[n].height

(* the menu's height is the sum of its items' heights and every item sits  *)
(* at the sum of the heights of the items before it                        *)
Stacked(menu) ==
    /\ menu.height = SumHeights(menu.items, Len(menu.items))
    /\ \A k \in 1..Len(menu.items) :
         menu.items[k].y = SumHeights(menu.items, k - 1)

RefersTo(it, reg, id) == it.submenu # 0 /\ reg[it.submenu].id = id

(* the same configuration with more than one workspace: nothing is hidden *)
Unhidden == menu_init_from([config EXCEPT !.workspaces = 2],
                           waiting_for_pipe_menu)

(* C20: every menu's height is the sum of its items' heights; with exactly *)
(* one workspace configured, menu_init leaves no item that refers to the   *)
(* workspace submenu, the containing menu is lower by the removed items'   *)
(* heights, and the remaining items sit at cumulative offsets.             *)
C20_HeightsAndHiddenWorkspaces ==
    /\ [](\A m \in 1..Len(built) : Stacked(built[m]))
    /\ [][(menu_reconfigure_build /\ config.workspaces = 1) =>
            /\ Len(built') = Len(Unhidden)
            /\ \A m \in 1..Len(built') :
                 LET was  == Unhidden[m].items
                     gone == {k \in 1..Len(was) :
                                  RefersTo(was[k], Unhidden, "workspaces")}
                 IN  /\ \A k \in 1..Len(built'[m].items) :
                          ~RefersTo(built'[m].items[k], built', "workspaces")
                     /\ Len(built'[m].items) = Len(was) - Cardinality(gone)
                     /\ built'[m].height =
                          Unhidden[m].height - Cardinality(gone) * item_height]_vars

(* C22: after every configuration build the menus defined at the top level *)
(* have a null parent, and no menu's parent refers to a destroyed menu.    *)
C22_TopLevelParentNull ==
    last = "reconfigure" =>
        /\ \A h \in TopLevel : men[h].parent = NULL
        /\ \A h \in Handles : men[h].live => men[h].parent # DANGLING

(* C27: activating an item that carries an execute command changes         *)
(* nothing: the open tree is not closed, no actions run, no cached pipe    *)
(* menu is destroyed.                                                      *)
C27_PipeItemNeverTerminal ==
    [][\A item \in Items :
         ~ /\ Execute(item)
           /\ progVars' # progVars
           /\ ActivateStep(item)]_vars

(* C28: while a request exists its item, and the item's menu, are live.    *)
C28_RequestItemLive ==
    \A c \in ctx : ~c.dangling /\ men[Owner(c.item)].live

(* C29: a menu built by menu_init from the configuration is never marked   *)
(* pipe-menu-sourced, so the teardown of pipe menus never destroys it.     *)
C29_StaticNeverPipeFlagged ==
    /\ \A n \in 1..Len(StaticMenus) :
         men[StaticMenus[n]].live => ~men[StaticMenus[n]].is_pipemenu
    /\ last \in {"close_root", "activate", "open_root"} =>
         \A n \in 1..Len(StaticMenus) : men[StaticMenus[n]].live

NoLinkOutOfPipeMenus ==
    \A m \in 1..Len(built) : \A k \in 1..Len(built[m].items) :
        (built[m].is_pipemenu /\ built[m].items[k].submenu # 0) =>
            built[built[m].items[k].submenu].is_pipemenu

(***************************************************************************)
(* C23: every menu of the registry with a parent has a parent that is a    *)
(* menu of the registry and holds exactly one item whose submenu it is.    *)
(***************************************************************************)
C23_ParentHoldsOneLink ==
    \A m \in 1..Len(built) :
        built[m].parent # 0 =>
            /\ built[m].parent \in 1..Len(built)
            /\ Cardinality({k \in 1..Len(built[built[m].parent].items) :
                   built[built[m].parent].items[k].submenu = m}) = 1

(***************************************************************************)
(* C24: a separator carries no action, and neither does an item that       *)
(* stands for a submenu or a pipe menu: an action joins only the item      *)
(* that its own <item label=""> element started.                           *)
(***************************************************************************)
C24_ActionsOnlyOnOwnItem ==
    \A m \in 1..Len(built) : \A k \in 1..Len(built[m].items) :
        (\/ built[m].items[k].kind = "sep"
         \/ built[m].items[k].submenu # 0
         \/ built[m].items[k].execute) =>
            built[m].items[k].actions = <<>>

(***************************************************************************)
(* C30: no menu of the registry is reached from itself along items'        *)
(* submenus, so the recursive walks over submenus end.                     *)
(***************************************************************************)
C30_SubmenuGraphAcyclic ==
    \A m \in 1..Len(built) :
        m \notin ReachFrom(built, Succ(built, m), Len(built))

(* the configuration without the candidates that do not exist *)
ExistingOnly(cfg) ==
    [cfg EXCEPT !.sources = SelectSeq(@, LAMBDA src : src.exists)]

(***************************************************************************)
(* C26: with merge_config set, a registry that holds no pipe menu is what  *)
(* menu_init builds from the existing candidates alone, in their order:    *)
(* a missing candidate changes nothing.                                    *)
(***************************************************************************)
C26_MergeSkipsMissing ==
    (config.merge /\ \A m \in 1..Len(built) : ~built[m].is_pipemenu) =>
        \E cur \in {0, Freed} :
            built = validate(menu_init_walk(ExistingOnly(config), FALSE,
                                            cur).reg)

(* the widths of the chains of submenus that start at menu m, a menu      *)
(* counting with its width less the horizontal overlap                     *)
RECURSIVE ChainWidths(_, _, _)
ChainWidths(reg, m, n) ==
    LET own == menu_update_width(reg[m]) - menu_overlap_x
    IN  IF n = 0 THEN {own}
        ELSE {own} \cup
             {own + c : c \in UNION {ChainWidths(reg, sub, n - 1) :
                                       sub \in Succ(reg, m)}}

CumulativeWidth(reg, m) ==
    CHOOSE w \in ChainWidths(reg, m, Len(reg)) :
        \A c \in ChainWidths(reg, m, Len(reg)) : c <= w

Horizontal(align) == align \cap {"LEFT", "RIGHT"}
Vertical(align) == align \cap {"TOP", "BOTTOM"}
TooWide(m) ==
    placed[m].at_x - Output.x + CumulativeWidth(built, m) > usable_area.width
TooTall(m) ==
    placed[m].at_y - Output.y + built[m].height > usable_area.height

(***************************************************************************)
(* C25: a menu configured with automatic alignment at a point opens        *)
(* leftward exactly when the point's x plus the width of the menu and its  *)
(* widest submenu chain exceeds the usable width, else rightward; upward   *)
(* exactly when the point's y plus its height exceeds the usable height,   *)
(* else downward; upward and leftward when both.  Every submenu configured *)
(* below it, and a pipe menu configured later under a placed menu, has the *)
(* horizontal direction of the menu above it.                              *)
(***************************************************************************)
C25_AutoAlignment ==
    \A m \in 1..Len(placed) :
        placed[m].fresh =>
            /\ placed[m].auto =>
                 /\ Horizontal(placed[m].align) =
                        IF TooWide(m) THEN {"LEFT"} ELSE {"RIGHT"}
                 /\ Vertical(placed[m].align) =
                        IF TooTall(m) THEN {"TOP"} ELSE {"BOTTOM"}
                 /\ (TooWide(m) /\ TooTall(m)) =>
                        placed[m].align = {"TOP", "LEFT"}
            /\ \A sub \in Succ(built, m) :
                 placed[sub].fresh =>
                     Horizontal(placed[sub].align) =
                         Horizontal(placed[m].align)
            /\ (built[m].is_pipemenu /\ built[m].parent > 0
                  /\ ~placed[built[m].parent].fresh) =>
                     Horizontal(placed[m].align) =
                         Horizontal(placed[built[m].parent].align)

(* a menu opened where neither its submenu chain nor its height fits,      *)
(* with a submenu configured below it                                      *)
C25_Witness ==
    \E m \in 1..Len(placed) :
        /\ placed[m].fresh /\ placed[m].auto
        /\ TooWide(m) /\ TooTall(m)
        /\ placed[m].align = {"TOP", "LEFT"}
        /\ \E sub \in Succ(built, m) :
               placed[sub].fresh /\ "LEFT" \in placed[sub].align
====
